---- MODULE Spec2Model ----
(***************************************************************************)
(* SonoMetric: the streaming Doppler pipeline of src/src/controller.py.   *)
(*                                                                         *)
(* Two execution contexts are modelled:                                    *)
(*   - the controlling (GUI) thread, which calls the DopplerController    *)
(*     entry points start_simulation, update_angle_live, stop_simulation  *)
(*     and runs the queued slot _handle_worker_error;                      *)
(*   - the SimulationWorker thread, whose run() is cut into one action    *)
(*     per statement group (initialisation steps, the loop test and the   *)
(*     stages of a tick).                                                  *)
(*                                                                         *)
(* Angles are integer degrees.  np.radians is modelled in milliradians    *)
(* (Radians).  A window of RF samples is a sequence of NSamples sample    *)
(* tags, a time axis a sequence of sample instants counted in sample      *)
(* periods 1/fs.                                                           *)
(*                                                                         *)
(* Spec and FairSpec are the application run.  The classes of src/core    *)
(* are also exercised on their own, each in a specification that draws    *)
(* its arguments from small sets: PhantomSpec (VesselPhantom and          *)
(* RFGenerator.generate_rf_sample), SpectrumSpec (the SpectrogramGenerator *)
(* classes, process_frame's velocity conversion, velocity_estimation) and *)
(* HeapSpec (the identity of the arrays run() emits and keeps).           *)
(***************************************************************************)
EXTENDS Integers, Sequences, FiniteSets, TLC

VARIABLES
    \* ---- DopplerController (GUI thread) ----
    worker,          \* self.worker: 0 is None, else the session number of the worker
    current_angle,   \* self.current_angle
    angle_manager,   \* self.angle_manager.current_angle
    ctl,             \* "idle", or "waiting" inside stop_simulation's worker.wait()
    errq,            \* queued error signals not yet delivered to _handle_worker_error
    forwarded,       \* number of error_occurred emissions, per session
    \* ---- the SimulationWorker thread object most recently created ----
    session,         \* number of SimulationWorker objects created so far
    pc,              \* position of run(); "none" when no worker object exists
    is_running,      \* self._is_running
    doppler_angle,   \* self.doppler_angle (degrees)
    rf_gen,          \* self.rf_gen    : [has, doppler_angle, time]
    spec_gen,        \* self.spec_gen  : [has, doppler_angle]
    angle_mgr,       \* self.angle_mgr : [has, current_angle]
    phantom,         \* local phantom  : [gen, updates]
    frame_count,     \* local frame_count
    rf_buffer,       \* local rf_buffer
    rf_time_buffer,  \* local rf_time_buffer
    orphans,         \* worker threads still executing whose reference was cleared
    \* ---- observation of the run (history) ----
    ev,              \* what the current tick has done so far, in order
    ticks,           \* number of ticks started by the current worker
    rf_count,        \* number of RF windows synthesized by the current worker
    spec_in,         \* input of the latest compute_spectrogram call
    tick_rf_angle,   \* angle used by the RF synthesis of this tick (<<>> if none)
    tick_spec_angle, \* angle used by the spectral analysis of this tick (<<>> if none)
    live,            \* latest accepted live angle of this session: [angle, fresh]
    errs,            \* number of error signals emitted, per session
    last_call,       \* the latest controller call and how it ended
    \* ---- objects of src/core exercised on their own ----
    vessel,          \* a VesselPhantom and what its constructor did
    unit_gen,        \* an RFGenerator driven directly: [has, doppler_angle, time]
    unit_rf,         \* the windows generate_rf_sample returned, oldest first
    analysis,        \* one spectral analysis: its inputs, how far it got, its results
    heap             \* array objects of one tick: who holds them, who received them

ctlVars  == <<worker, current_angle, angle_manager, ctl, errq, forwarded>>
wrkVars  == <<session, pc, is_running, doppler_angle, rf_gen, spec_gen, angle_mgr,
              phantom, frame_count, rf_buffer, rf_time_buffer, orphans>>
obsVars  == <<ev, ticks, rf_count, spec_in, tick_rf_angle, tick_spec_angle,
              live, errs, last_call>>
phantomVars == <<vessel, unit_gen, unit_rf>>
unitVars == <<phantomVars, analysis, heap>>
appVars  == <<ctlVars, wrkVars, obsVars>>
vars     == <<appVars, unitVars>>

(***************************************************************************)
(* Bounds of the model.                                                    *)
(***************************************************************************)
MaxFrames   == 26     \* ticks a worker may start
MaxSessions == 2      \* workers a controller may create
NSamples    == 2      \* samples per RF window (int(duration * fs) in the code)
MaxUpdates  == 3      \* update(dt) calls on the phantom exercised on its own
MaxWindows  == 3      \* windows generated from the phantom exercised on its own

(***************************************************************************)
(* Program constants.                                                      *)
(***************************************************************************)
MIN_ANGLE            == 0 - 180
MAX_ANGLE            == 180
AVAILABLE_ANGLES     == {30, 60, 75}
AngleManager_init    == 60
max_buffer_size      == 5
flow_update_interval == 2
rf_update_interval   == 5
spec_update_interval == 10
min_spec_windows     == 3

\* Angles the controlling surface may pass: an accepted angle other than the
\* default, and one inside the configured bounds that AngleManager rejects.
InputAngles == {30, 90}
Sessions    == 1 .. MaxSessions
\* Whether a window finds scatterers inside the sample volume.  The streaming
\* specification follows the populated gate.
GateOutcomes == {TRUE}

(***************************************************************************)
(* Pure helpers.                                                           *)
(***************************************************************************)
\* np.radians, in milliradians (pi/180 = 31416/1800000).
Radians(deg) == (deg * 31416) \div 1800

\* np.cos and np.sin at the angles the model draws, in thousandths.
TrigTable ==
    { [rad |-> Radians(30),  cos |-> 866,     sin |-> 500],
      [rad |-> Radians(60),  cos |-> 500,     sin |-> 866],
      [rad |-> Radians(75),  cos |-> 259,     sin |-> 966],
      [rad |-> Radians(90),  cos |-> 0,       sin |-> 1000],
      [rad |-> Radians(200), cos |-> 0 - 940, sin |-> 0 - 342] }
Cos(rad) == (CHOOSE t \in TrigTable : t.rad = rad).cos
Sin(rad) == (CHOOSE t \in TrigTable : t.rad = rad).sin

\* ---- AngleManager (src/src/core/beam_angles.py) ----
\* Variant: the angle is stored before it is validated.
AngleManager_set_angle_store_first(cur, angle_deg) ==
    [current_angle |-> angle_deg, raised |-> angle_deg \notin AVAILABLE_ANGLES]

\* set_angle on an instance whose stored angle is cur: the stored angle
\* afterwards, and whether ValueError was raised.
AngleManager_set_angle(cur, angle_deg) ==
    IF angle_deg \in AVAILABLE_ANGLES
    THEN [current_angle |-> angle_deg, raised |-> FALSE]
    ELSE [current_angle |-> cur,       raised |-> TRUE]

get_angle(cur)         == cur
get_angle_radians(cur) == Radians(cur)
get_doppler_factor(cur) == Cos(get_angle_radians(cur))
get_angle_info(cur) ==
    [angle_deg      |-> cur,
     angle_rad      |-> get_angle_radians(cur),
     cos_theta      |-> Cos(get_angle_radians(cur)),
     sin_theta      |-> Sin(get_angle_radians(cur)),
     doppler_factor |-> get_doppler_factor(cur)]

\* ---- RFGenerator (src/src/core/rf_generation.py) ----
RFGenerator_init(doppler_angle_deg) ==
    [has |-> TRUE, doppler_angle |-> Radians(doppler_angle_deg), time |-> 0]

\* Variant: an empty gate returns an empty buffer.
generate_rf_sample_empty_buffer(gen, k, in_gate) ==
    LET time_axis == [i \in 1 .. NSamples |-> (i - 1) + gen.time]
    IN  IF ~in_gate
        THEN [rf_signal |-> <<>>, time_axis |-> time_axis, gen |-> gen]
        ELSE [rf_signal |-> [i \in 1 .. NSamples |-> [win |-> k, idx |-> i, zero |-> FALSE]],
              time_axis |-> time_axis,
              gen       |-> [gen EXCEPT !.time = @ + NSamples]]

\* generate_rf_sample for the k-th window; in_gate says whether any scatterer
\* is inside the sample volume.  Result: the signal, its time axis and the
\* generator afterwards.
generate_rf_sample(gen, k, in_gate) ==
    LET time_axis == [i \in 1 .. NSamples |-> (i - 1) + gen.time]
    IN  IF ~in_gate
        THEN [rf_signal |-> [i \in 1 .. NSamples |-> [win |-> k, idx |-> i, zero |-> TRUE]],
              time_axis |-> time_axis,
              gen       |-> gen]
        ELSE [rf_signal |-> [i \in 1 .. NSamples |-> [win |-> k, idx |-> i, zero |-> FALSE]],
              time_axis |-> time_axis,
              gen       |-> [gen EXCEPT !.time = @ + NSamples]]

\* ---- SpectrogramGenerator (src/src/core/stft_processing.py) ----
SpectrogramGenerator_init(doppler_angle_deg) ==
    [has |-> TRUE, doppler_angle |-> Radians(doppler_angle_deg)]

\* ---- pieces of SimulationWorker.run ----
\* np.concatenate of a list of arrays.
RECURSIVE Concatenate(_)
Concatenate(bufs) ==
    IF bufs = <<>> THEN <<>> ELSE Head(bufs) \o Concatenate(Tail(bufs))

\* Variant: the spectral stage reads the FIFO as it was before this tick's
\* window was appended.
rf_combined_stale(buf) ==
    IF buf = <<>> THEN <<>> ELSE Concatenate(SubSeq(buf, 1, Len(buf) - 1))

\* rf_combined = np.concatenate(rf_buffer); likewise time_combined.
rf_combined(buf) == Concatenate(buf)

\* Variant: the newest window is dropped on overflow.
LimitBuffer_drop_newest(buf) ==
    IF Len(buf) > max_buffer_size THEN SubSeq(buf, 1, Len(buf) - 1) ELSE buf

\* "Keep buffer size limited": pop(0) when the list is longer than the limit.
LimitBuffer(buf) ==
    IF Len(buf) > max_buffer_size THEN Tail(buf) ELSE buf

FlowDue(n) == n % flow_update_interval = 0
\* Variant: RF every 3 frames.
RfDue_every_3(n) == n % 3 = 0
RfDue(n)   == n % rf_update_interval = 0
\* Variant: the minimum number of buffered windows is not required.
SpecDue_no_minimum(n, buf) == n % spec_update_interval = 0
SpecDue(n, buf) == n % spec_update_interval = 0 /\ Len(buf) >= min_spec_windows

\* DopplerController.get_current_angle
get_current_angle == current_angle

\* QThread.isRunning of the worker thread object.
isRunning == pc \notin {"none", "finished"}

NoGen   == [has |-> FALSE, doppler_angle |-> 0, time |-> 0]
NoSpec  == [has |-> FALSE, doppler_angle |-> 0]
NoMgr   == [has |-> FALSE, current_angle |-> 0]
NoInput == [rf |-> <<>>, time |-> <<>>, angle |-> 0]
NoLive  == [angle |-> 0, fresh |-> FALSE]
NoVessel == [made |-> FALSE, raised |-> FALSE]
NoAnalysis == [stage |-> "none"]
NoHeap == [stage |-> "none"]

(***************************************************************************)
(* Initial state: DopplerController.__init__, no worker yet.               *)
(***************************************************************************)
IdleApp ==
    /\ worker = 0
    /\ angle_manager = AngleManager_init
    /\ current_angle = get_angle(AngleManager_init)
    /\ ctl = "idle"
    /\ errq = <<>>
    /\ forwarded = [s \in Sessions |-> 0]
    /\ session = 0
    /\ pc = "none"
    /\ is_running = FALSE
    /\ doppler_angle = 0
    /\ rf_gen = NoGen
    /\ spec_gen = NoSpec
    /\ angle_mgr = NoMgr
    /\ phantom = [gen |-> 0, updates |-> 0]
    /\ frame_count = 0
    /\ rf_buffer = <<>>
    /\ rf_time_buffer = <<>>
    /\ orphans = 0
    /\ ev = <<>>
    /\ ticks = 0
    /\ rf_count = 0
    /\ spec_in = NoInput
    /\ tick_rf_angle = <<>>
    /\ tick_spec_angle = <<>>
    /\ live = NoLive
    /\ errs = [s \in Sessions |-> 0]
    /\ last_call = [op |-> "none", arg |-> <<>>, raised |-> "none",
                    angle_before |-> 0, am_before |-> 0]

\* The objects exercised on their own do not exist in the application run.
IdleUnits ==
    /\ vessel = NoVessel
    /\ unit_gen = NoGen
    /\ unit_rf = <<>>
    /\ analysis = NoAnalysis
    /\ heap = NoHeap

Init == IdleApp /\ IdleUnits

\* A fresh thread object: SimulationWorker.__init__(doppler_angle) followed by
\* QThread.start().  The attributes rf_gen, spec_gen and angle_mgr do not exist
\* until run() assigns them.
NewWorker(angle) ==
    /\ pc' = "init_phantom"
    /\ is_running' = TRUE
    /\ doppler_angle' = angle
    /\ rf_gen' = NoGen
    /\ spec_gen' = NoSpec
    /\ angle_mgr' = NoMgr
    /\ phantom' = [gen |-> 0, updates |-> 0]
    /\ frame_count' = 0
    /\ rf_buffer' = <<>>
    /\ rf_time_buffer' = <<>>
    /\ ev' = <<>>
    /\ ticks' = 0
    /\ rf_count' = 0
    /\ spec_in' = NoInput
    /\ tick_rf_angle' = <<>>
    /\ tick_spec_angle' = <<>>
    /\ live' = NoLive

\* The thread object is gone (deleteLater, reference dropped).
DropWorker ==
    /\ pc' = "none"
    /\ is_running' = FALSE
    /\ doppler_angle' = 0
    /\ rf_gen' = NoGen
    /\ spec_gen' = NoSpec
    /\ angle_mgr' = NoMgr
    /\ phantom' = [gen |-> 0, updates |-> 0]
    /\ frame_count' = 0
    /\ rf_buffer' = <<>>
    /\ rf_time_buffer' = <<>>
    /\ ev' = <<>>
    /\ ticks' = 0
    /\ rf_count' = 0
    /\ spec_in' = NoInput
    /\ tick_rf_angle' = <<>>
    /\ tick_spec_angle' = <<>>
    /\ live' = NoLive

slotVars == <<pc, is_running, doppler_angle, rf_gen, spec_gen, angle_mgr, phantom,
              frame_count, rf_buffer, rf_time_buffer, ev, ticks, rf_count, spec_in,
              tick_rf_angle, tick_spec_angle, live>>

\* DopplerController._cleanup_worker.  A worker whose reference is cleared
\* while its thread still executes goes on executing unreferenced.
cleanup_worker ==
    IF worker # 0
    THEN /\ worker' = 0
         /\ orphans' = IF isRunning THEN orphans + 1 ELSE orphans
         /\ DropWorker
    ELSE UNCHANGED <<worker, orphans, slotVars>>

\* The record of a controller call: the values before the call are kept for
\* the calls that ended in ValueError.
Call(op, arg, raised) ==
    [op |-> op, arg |-> arg, raised |-> raised,
     angle_before |-> IF raised = "ValueError" THEN current_angle ELSE 0,
     am_before    |-> IF raised = "ValueError" THEN angle_manager ELSE 0]

(***************************************************************************)
(* DopplerController entry points (GUI thread).                            *)
(***************************************************************************)
\* start_simulation(angle); angle is <<>> for None, else <<degrees>>.
start_simulation(angle) ==
    /\ ctl = "idle"
    /\ IF worker # 0 /\ isRunning
       THEN /\ last_call' = Call("start_busy", angle, "none")
            /\ UNCHANGED <<ctlVars, wrkVars, ev, ticks, rf_count, spec_in,
                           tick_rf_angle, tick_spec_angle, live, errs>>
       ELSE LET r == IF angle # <<>>
                     THEN AngleManager_set_angle(angle_manager, angle[1])
                     ELSE [current_angle |-> angle_manager, raised |-> FALSE]
                cur == IF angle # <<>> THEN angle[1] ELSE current_angle
            IN  /\ current_angle' = cur
                /\ angle_manager' = r.current_angle
                /\ IF r.raised
                   THEN /\ last_call' = Call("start", angle, "ValueError")
                        /\ UNCHANGED <<worker, session, orphans, slotVars>>
                   ELSE /\ session < MaxSessions
                        /\ session' = session + 1
                        /\ worker' = session + 1
                        /\ NewWorker(cur)
                        /\ last_call' = Call("start", angle, "none")
                        /\ UNCHANGED orphans
                /\ UNCHANGED <<ctl, errq, forwarded, errs>>
    /\ UNCHANGED unitVars

\* SimulationWorker.set_angle, called from the GUI thread: the worker's
\* attributes afterwards and the exception that ended the call, if any.
\* RFGenerator defines no set_angle method, so the call on an existing rf_gen
\* raises AttributeError before angle_mgr and spec_gen are touched.
SimulationWorker_set_angle(angle_deg) ==
    IF rf_gen.has
    THEN [doppler_angle |-> angle_deg, rf_gen |-> rf_gen, angle_mgr |-> angle_mgr,
          spec_gen |-> spec_gen, raised |-> "AttributeError"]
    ELSE LET m == IF angle_mgr.has
                  THEN AngleManager_set_angle(angle_mgr.current_angle, angle_deg)
                  ELSE [current_angle |-> angle_mgr.current_angle, raised |-> FALSE]
         IN  [doppler_angle |-> angle_deg,
              rf_gen        |-> rf_gen,
              angle_mgr     |-> [angle_mgr EXCEPT !.current_angle = m.current_angle],
              spec_gen      |-> IF spec_gen.has /\ ~m.raised
                                THEN [spec_gen EXCEPT !.doppler_angle = Radians(angle_deg)]
                                ELSE spec_gen,
              raised        |-> IF m.raised THEN "ValueError" ELSE "none"]

update_angle_live(angle) ==
    /\ ctl = "idle"
    /\ current_angle' = angle
    /\ LET r == AngleManager_set_angle(angle_manager, angle)
       IN  /\ angle_manager' = r.current_angle
           /\ IF r.raised
              THEN /\ last_call' = Call("live", <<angle>>, "ValueError")
                   /\ UNCHANGED <<doppler_angle, rf_gen, angle_mgr, spec_gen, live>>
              ELSE IF worker # 0 /\ isRunning
                   THEN LET w == SimulationWorker_set_angle(angle)
                        IN  /\ doppler_angle' = w.doppler_angle
                            /\ rf_gen' = w.rf_gen
                            /\ angle_mgr' = w.angle_mgr
                            /\ spec_gen' = w.spec_gen
                            /\ live' = [angle |-> angle, fresh |-> TRUE]
                            /\ last_call' = Call("live", <<angle>>, w.raised)
                   ELSE /\ last_call' = Call("live", <<angle>>, "none")
                        /\ UNCHANGED <<doppler_angle, rf_gen, angle_mgr, spec_gen, live>>
    /\ UNCHANGED <<worker, ctl, errq, forwarded, session, pc, is_running, phantom,
                   frame_count, rf_buffer, rf_time_buffer, orphans, ev, ticks,
                   rf_count, spec_in, tick_rf_angle, tick_spec_angle, errs>>
    /\ UNCHANGED unitVars

\* stop_simulation up to and including the entry into worker.wait().
stop_simulation_call ==
    /\ ctl = "idle"
    /\ worker # 0
    /\ is_running' = FALSE
    /\ ctl' = "waiting"
    /\ last_call' = Call("stop", <<>>, "none")
    /\ UNCHANGED <<worker, current_angle, angle_manager, errq, forwarded, session,
                   pc, doppler_angle, rf_gen, spec_gen, angle_mgr, phantom,
                   frame_count, rf_buffer, rf_time_buffer, orphans, ev, ticks,
                   rf_count, spec_in, tick_rf_angle, tick_spec_angle, live, errs>>
    /\ UNCHANGED unitVars

\* worker.wait() returns once the thread has finished; then _cleanup_worker.
stop_simulation_return ==
    /\ ctl = "waiting"
    /\ pc = "finished"
    /\ cleanup_worker
    /\ ctl' = "idle"
    /\ UNCHANGED <<current_angle, angle_manager, errq, forwarded, session, errs,
                   last_call>>
    /\ UNCHANGED unitVars

\* The queued error signal reaches _handle_worker_error.
handle_worker_error ==
    /\ ctl = "idle"
    /\ errq # <<>>
    /\ forwarded' = [forwarded EXCEPT ![Head(errq)] = @ + 1]
    /\ errq' = Tail(errq)
    /\ cleanup_worker
    /\ last_call' = Call("error", <<>>, "none")
    /\ UNCHANGED <<current_angle, angle_manager, ctl, session, errs>>
    /\ UNCHANGED unitVars

(***************************************************************************)
(* SimulationWorker.run (worker thread).                                   *)
(***************************************************************************)
\* phantom = VesselPhantom(...)
InitPhantom ==
    /\ pc = "init_phantom"
    /\ phantom' = [gen |-> phantom.gen + 1, updates |-> 0]
    /\ pc' = "init_rf"
    /\ UNCHANGED <<ctlVars, session, is_running, doppler_angle, rf_gen, spec_gen,
                   angle_mgr, frame_count, rf_buffer, rf_time_buffer, orphans, obsVars>>
    /\ UNCHANGED unitVars

\* self.rf_gen = RFGenerator(doppler_angle_deg=self.doppler_angle)
InitRfGen ==
    /\ pc = "init_rf"
    /\ rf_gen' = RFGenerator_init(doppler_angle)
    /\ pc' = "init_spec"
    /\ UNCHANGED <<ctlVars, session, is_running, doppler_angle, spec_gen, angle_mgr,
                   phantom, frame_count, rf_buffer, rf_time_buffer, orphans, obsVars>>
    /\ UNCHANGED unitVars

\* self.spec_gen = SpectrogramGenerator(doppler_angle_deg=self.doppler_angle)
InitSpecGen ==
    /\ pc = "init_spec"
    /\ spec_gen' = SpectrogramGenerator_init(doppler_angle)
    /\ pc' = "init_mgr"
    /\ UNCHANGED <<ctlVars, session, is_running, doppler_angle, rf_gen, angle_mgr,
                   phantom, frame_count, rf_buffer, rf_time_buffer, orphans, obsVars>>
    /\ UNCHANGED unitVars

\* self.angle_mgr = AngleManager()
InitAngleMgr ==
    /\ pc = "init_mgr"
    /\ angle_mgr' = [has |-> TRUE, current_angle |-> AngleManager_init]
    /\ pc' = "init_set"
    /\ UNCHANGED <<ctlVars, session, is_running, doppler_angle, rf_gen, spec_gen,
                   phantom, frame_count, rf_buffer, rf_time_buffer, orphans, obsVars>>
    /\ UNCHANGED unitVars

\* self.angle_mgr.set_angle(self.doppler_angle), then the loop's locals.
InitSetAngle ==
    /\ pc = "init_set"
    /\ LET r == AngleManager_set_angle(angle_mgr.current_angle, doppler_angle)
       IN  /\ angle_mgr' = [angle_mgr EXCEPT !.current_angle = r.current_angle]
           /\ pc' = IF r.raised THEN "except" ELSE "loop"
    /\ frame_count' = 0
    /\ rf_buffer' = <<>>
    /\ rf_time_buffer' = <<>>
    /\ UNCHANGED <<ctlVars, session, is_running, doppler_angle, rf_gen, spec_gen,
                   phantom, orphans, obsVars>>
    /\ UNCHANGED unitVars

\* while self._is_running: the only place the stop flag is read.
LoopTest ==
    /\ pc = "loop"
    /\ IF is_running
       THEN /\ ticks < MaxFrames
            /\ pc' = "advance"
            /\ ticks' = ticks + 1
            /\ ev' = <<>>
            /\ tick_rf_angle' = <<>>
            /\ tick_spec_angle' = <<>>
            /\ live' = [live EXCEPT !.fresh = FALSE]
       ELSE /\ pc' = "returning"
            /\ UNCHANGED <<ticks, ev, tick_rf_angle, tick_spec_angle, live>>
    /\ UNCHANGED <<ctlVars, session, is_running, doppler_angle, rf_gen, spec_gen,
                   angle_mgr, phantom, frame_count, rf_buffer, rf_time_buffer,
                   orphans, rf_count, spec_in, errs, last_call>>
    /\ UNCHANGED unitVars

\* phantom.update(dt)
Advance ==
    /\ pc = "advance"
    /\ phantom' = [phantom EXCEPT !.updates = @ + 1]
    /\ ev' = Append(ev, "advance")
    /\ pc' = "flow"
    /\ UNCHANGED <<ctlVars, session, is_running, doppler_angle, rf_gen, spec_gen,
                   angle_mgr, frame_count, rf_buffer, rf_time_buffer, orphans,
                   ticks, rf_count, spec_in, tick_rf_angle, tick_spec_angle, live,
                   errs, last_call>>
    /\ UNCHANGED unitVars

\* Variant: the emission is skipped once the stop flag is cleared.
FlowStage_checks_stop ==
    /\ pc = "flow"
    /\ ev' = IF FlowDue(frame_count) /\ is_running THEN Append(ev, "flow") ELSE ev
    /\ pc' = "rf"
    /\ UNCHANGED <<ctlVars, session, is_running, doppler_angle, rf_gen, spec_gen,
                   angle_mgr, phantom, frame_count, rf_buffer, rf_time_buffer,
                   orphans, ticks, rf_count, spec_in, tick_rf_angle,
                   tick_spec_angle, live, errs, last_call>>
    /\ UNCHANGED unitVars

\* if frame_count % flow_update_interval == 0: self.flow_updated.emit(...)
FlowStage ==
    /\ pc = "flow"
    /\ ev' = IF FlowDue(frame_count) THEN Append(ev, "flow") ELSE ev
    /\ pc' = "rf"
    /\ UNCHANGED <<ctlVars, session, is_running, doppler_angle, rf_gen, spec_gen,
                   angle_mgr, phantom, frame_count, rf_buffer, rf_time_buffer,
                   orphans, ticks, rf_count, spec_in, tick_rf_angle,
                   tick_spec_angle, live, errs, last_call>>
    /\ UNCHANGED unitVars

\* if frame_count % rf_update_interval == 0: generate, emit, append, limit.
RfStage ==
    /\ pc = "rf"
    /\ IF RfDue(frame_count)
       THEN \E in_gate \in GateOutcomes :
              LET g == generate_rf_sample(rf_gen, rf_count + 1, in_gate)
              IN  /\ rf_gen' = g.gen
                  /\ rf_count' = rf_count + 1
                  /\ tick_rf_angle' = <<rf_gen.doppler_angle>>
                  /\ ev' = Append(ev, "rf")
                  /\ rf_buffer' = LimitBuffer(Append(rf_buffer, g.rf_signal))
                  /\ rf_time_buffer' = LimitBuffer(Append(rf_time_buffer, g.time_axis))
       ELSE UNCHANGED <<rf_gen, rf_count, tick_rf_angle, ev, rf_buffer, rf_time_buffer>>
    /\ pc' = "spec"
    /\ UNCHANGED <<ctlVars, session, is_running, doppler_angle, spec_gen, angle_mgr,
                   phantom, frame_count, orphans, ticks, spec_in, tick_spec_angle,
                   live, errs, last_call>>
    /\ UNCHANGED unitVars

\* if frame_count % spec_update_interval == 0 and len(rf_buffer) >= 3:
\* concatenate, compute_spectrogram, emit spectrum, estimate, emit metrics.
SpecStage ==
    /\ pc = "spec"
    /\ IF SpecDue(frame_count, rf_buffer)
       THEN /\ spec_in' = [rf    |-> rf_combined(rf_buffer),
                           time  |-> rf_combined(rf_time_buffer),
                           angle |-> spec_gen.doppler_angle]
            /\ tick_spec_angle' = <<spec_gen.doppler_angle>>
            /\ ev' = ev \o <<"spectrum", "metrics">>
       ELSE UNCHANGED <<spec_in, tick_spec_angle, ev>>
    /\ pc' = "inc"
    /\ UNCHANGED <<ctlVars, session, is_running, doppler_angle, rf_gen, spec_gen,
                   angle_mgr, phantom, frame_count, rf_buffer, rf_time_buffer,
                   orphans, ticks, rf_count, tick_rf_angle, live, errs, last_call>>
    /\ UNCHANGED unitVars

\* frame_count += 1; self.msleep(int(dt * 1000))
EndTick ==
    /\ pc = "inc"
    /\ frame_count' = frame_count + 1
    /\ pc' = "loop"
    /\ UNCHANGED <<ctlVars, session, is_running, doppler_angle, rf_gen, spec_gen,
                   angle_mgr, phantom, rf_buffer, rf_time_buffer, orphans, obsVars>>
    /\ UNCHANGED unitVars

\* A statement of the loop body raises (any Exception inside the try block).
RaiseInTick ==
    /\ pc \in {"advance", "flow", "rf", "spec"}
    /\ pc' = "except"
    /\ UNCHANGED <<ctlVars, session, is_running, doppler_angle, rf_gen, spec_gen,
                   angle_mgr, phantom, frame_count, rf_buffer, rf_time_buffer,
                   orphans, obsVars>>
    /\ UNCHANGED unitVars

\* Variant: the handler sits inside the loop, which goes on after the signal.
EmitError_resumes ==
    /\ pc = "except"
    /\ errq' = Append(errq, session)
    /\ errs' = [errs EXCEPT ![session] = @ + 1]
    /\ pc' = "loop"
    /\ UNCHANGED <<worker, current_angle, angle_manager, ctl, forwarded, session,
                   is_running, doppler_angle, rf_gen, spec_gen, angle_mgr, phantom,
                   frame_count, rf_buffer, rf_time_buffer, orphans, ev, ticks,
                   rf_count, spec_in, tick_rf_angle, tick_spec_angle, live, last_call>>
    /\ UNCHANGED unitVars

\* except Exception as e: self.error.emit(str(e)); run() returns.
EmitError ==
    /\ pc = "except"
    /\ errq' = Append(errq, session)
    /\ errs' = [errs EXCEPT ![session] = @ + 1]
    /\ pc' = "returning"
    /\ UNCHANGED <<worker, current_angle, angle_manager, ctl, forwarded, session,
                   is_running, doppler_angle, rf_gen, spec_gen, angle_mgr, phantom,
                   frame_count, rf_buffer, rf_time_buffer, orphans, ev, ticks,
                   rf_count, spec_in, tick_rf_angle, tick_spec_angle, live, last_call>>
    /\ UNCHANGED unitVars

\* run() has returned; the thread finishes and isRunning() becomes false.
ThreadFinish ==
    /\ pc = "returning"
    /\ pc' = "finished"
    /\ UNCHANGED <<ctlVars, session, is_running, doppler_angle, rf_gen, spec_gen,
                   angle_mgr, phantom, frame_count, rf_buffer, rf_time_buffer,
                   orphans, obsVars>>
    /\ UNCHANGED unitVars

\* An unreferenced worker thread ends.
OrphanFinish ==
    /\ orphans > 0
    /\ orphans' = orphans - 1
    /\ UNCHANGED <<ctlVars, session, slotVars, errs, last_call>>
    /\ UNCHANGED unitVars

WorkerStep ==
    \/ InitPhantom \/ InitRfGen \/ InitSpecGen \/ InitAngleMgr \/ InitSetAngle
    \/ LoopTest \/ Advance \/ FlowStage \/ RfStage \/ SpecStage \/ EndTick
    \/ EmitError \/ ThreadFinish

Next ==
    \/ \E a \in {<<>>} \cup {<<x>> : x \in InputAngles} : start_simulation(a)
    \/ \E a \in InputAngles : update_angle_live(a)
    \/ stop_simulation_call
    \/ stop_simulation_return
    \/ handle_worker_error
    \/ WorkerStep
    \/ RaiseInTick
    \/ OrphanFinish

Spec == Init /\ [][Next]_vars

\* The worker thread is scheduled fairly, and wait() returns once it finished.
FairSpec ==
    /\ Init
    /\ [][Next]_vars
    /\ WF_vars(WorkerStep)
    /\ WF_vars(stop_simulation_return)

(***************************************************************************)
(* VesselPhantom and RFGenerator exercised on their own.                   *)
(*                                                                         *)
(* Positions lie on an integer grid; the vessel of config.py (radius      *)
(* 0.005, length 0.05, gate length 0.005, gate width 0.002) is scaled to   *)
(* radius 2, length 4, gate length 2, gate width 1.  A comparison with     *)
(* half a length is written with both sides doubled.                       *)
(***************************************************************************)
Radii         == {0 - 2, 0, 2}
Lengths       == {0 - 4, 0, 4}
NumScatterers == {0 - 1, 0, 1, 2}
V_MAX_TRUE    == 2
GATE_LENGTH   == 2
GATE_WIDTH    == 1
DEFAULT_ANGLE == 60
TimeSteps     == {1, 3}
Grid          == (0 - 2) .. 2
DiscGrid      == {<<0, 0>>, <<1, 1>>}

Abs(v) == IF v < 0 THEN 0 - v ELSE v

\* np.random.uniform(low, high): the grid points low + (high - low) * u with
\* 0 <= u < 1 can be; low2 and high2 are the doubled bounds.
Uniform(low2, high2) ==
    IF low2 < high2 THEN {v \in Grid : low2 <= 2 * v /\ 2 * v < high2}
    ELSE IF low2 > high2 THEN {v \in Grid : high2 < 2 * v /\ 2 * v <= low2}
    ELSE {v \in Grid : 2 * v = low2}

\* (r cos theta, r sin theta) for r = radius * sqrt(u), 0 <= u < 1.
Disc(radius) ==
    {p \in DiscGrid : p = <<0, 0>> \/ p[1] * p[1] + p[2] * p[2] < radius * radius}

\* Variant: a flat profile, every scatterer moves at v_max.
VesselPhantom_plug_flow(radius, length, v_max, num_scatterers, xs, yzs) ==
    LET args == [radius |-> radius, length |-> length,
                 num_scatterers |-> num_scatterers]
    IN  IF num_scatterers < 0
        THEN [made |-> FALSE, raised |-> TRUE, args |-> args]
        ELSE [made   |-> TRUE, raised |-> FALSE, args |-> args,
              radius |-> radius, length |-> length, v_max |-> v_max,
              x      |-> xs,
              y      |-> [i \in 1 .. num_scatterers |-> yzs[i][1]],
              z_rel  |-> [i \in 1 .. num_scatterers |-> yzs[i][2]],
              vx     |-> [i \in 1 .. num_scatterers |-> v_max],
              vx_nan |-> (radius = 0 /\ num_scatterers > 0),
              x_nan  |-> FALSE,
              updates |-> 0,
              wrapped |-> FALSE]

\* VesselPhantom.__init__ with the values np.random returned.  A negative
\* num_scatterers makes np.random.uniform raise ValueError; nothing else is
\* checked.  r_sq / radius**2 is 0/0 = nan for radius 0 (a warning, no
\* exception): vx_nan says that every vx is nan, x_nan that every x is.
VesselPhantom(radius, length, v_max, num_scatterers, xs, yzs) ==
    LET args == [radius |-> radius, length |-> length,
                 num_scatterers |-> num_scatterers]
    IN  IF num_scatterers < 0
        THEN [made |-> FALSE, raised |-> TRUE, args |-> args]
        ELSE [made   |-> TRUE, raised |-> FALSE, args |-> args,
              radius |-> radius, length |-> length, v_max |-> v_max,
              x      |-> xs,
              y      |-> [i \in 1 .. num_scatterers |-> yzs[i][1]],
              z_rel  |-> [i \in 1 .. num_scatterers |-> yzs[i][2]],
              vx     |-> [i \in 1 .. num_scatterers |->
                            IF radius = 0 THEN 0
                            ELSE (v_max * (radius * radius
                                    - (yzs[i][1] * yzs[i][1] + yzs[i][2] * yzs[i][2])))
                                 \div (radius * radius)],
              vx_nan |-> (radius = 0 /\ num_scatterers > 0),
              x_nan  |-> FALSE,
              updates |-> 0,
              wrapped |-> FALSE]

\* VesselPhantom.update(dt): the x array afterwards.
update_x(ph, dt) ==
    LET moved == [i \in 1 .. Len(ph.x) |-> ph.x[i] + ph.vx[i] * dt]
        upper == [i \in 1 .. Len(ph.x) |->
                    IF 2 * moved[i] > ph.length THEN moved[i] - ph.length
                    ELSE moved[i]]
    IN  [i \in 1 .. Len(ph.x) |->
            IF 2 * upper[i] < 0 - ph.length THEN upper[i] + ph.length
            ELSE upper[i]]

\* out_upper or out_lower selects some scatterer in update(dt).
Wraps(ph, dt) ==
    /\ ~ph.x_nan /\ ~ph.vx_nan
    /\ \E i \in 1 .. Len(ph.x) :
          \/ 2 * (ph.x[i] + ph.vx[i] * dt) > ph.length
          \/ 2 * (ph.x[i] + ph.vx[i] * dt) < 0 - ph.length

\* Variant: a scatterer recycled at the upper end re-enters on the centre
\* line, with the centre-line velocity.
update_reseeds_wrapped(ph, dt) ==
    LET out_upper(i) == 2 * (ph.x[i] + ph.vx[i] * dt) > ph.length
    IN  [ph EXCEPT !.x = update_x(ph, dt),
                   !.x_nan = @ \/ ph.vx_nan,
                   !.y = [i \in 1 .. Len(ph.x) |-> IF out_upper(i) THEN 0 ELSE ph.y[i]],
                   !.z_rel = [i \in 1 .. Len(ph.x) |-> IF out_upper(i) THEN 0 ELSE ph.z_rel[i]],
                   !.vx = [i \in 1 .. Len(ph.x) |-> IF out_upper(i) THEN ph.v_max ELSE ph.vx[i]]]

\* VesselPhantom.update(dt): the phantom afterwards.  Only self.x is
\* assigned; x is nan once a nan vx was added to it.
update(ph, dt) ==
    [ph EXCEPT !.x = update_x(ph, dt), !.x_nan = @ \/ ph.vx_nan]

\* RFGenerator._scatterers_in_gate: the boolean array.  nan compares false.
scatterers_in_gate(ph) ==
    [i \in 1 .. Len(ph.x) |->
        /\ 2 * Abs(ph.y[i]) < GATE_LENGTH
        /\ 2 * Abs(ph.z_rel[i]) < GATE_WIDTH
        /\ ~ph.x_nan /\ 2 * Abs(ph.x[i]) < GATE_WIDTH]

\* np.sum(in_gate) == 0 is false.
gate_populated(ph) == \E i \in 1 .. Len(ph.x) : scatterers_in_gate(ph)[i]

PhantomInit ==
    /\ IdleApp
    /\ \E radius \in Radii, length \in Lengths, n \in NumScatterers :
         \E xs \in [1 .. n -> Uniform(0 - length, length)],
            yzs \in [1 .. n -> Disc(radius)] :
            vessel = VesselPhantom(radius, length, V_MAX_TRUE, n, xs, yzs)
    /\ unit_gen = RFGenerator_init(DEFAULT_ANGLE)
    /\ unit_rf = <<>>
    /\ analysis = NoAnalysis
    /\ heap = NoHeap

VesselPhantom_update(dt) ==
    /\ vessel.made
    /\ vessel.updates < MaxUpdates
    /\ vessel' = [update(vessel, dt) EXCEPT !.updates = @ + 1,
                                            !.wrapped = @ \/ Wraps(vessel, dt)]
    /\ UNCHANGED <<appVars, unit_gen, unit_rf, analysis, heap>>

\* rf_gen.generate_rf_sample(phantom, RF_WINDOW_DURATION) on the phantom as
\* it is now.
GenerateRf ==
    /\ vessel.made
    /\ Len(unit_rf) < MaxWindows
    /\ LET r == generate_rf_sample(unit_gen, Len(unit_rf) + 1, gate_populated(vessel))
       IN  /\ unit_gen' = r.gen
           /\ unit_rf' = Append(unit_rf, [rf_signal |-> r.rf_signal,
                                          time_axis |-> r.time_axis,
                                          populated |-> gate_populated(vessel),
                                          clock_before |-> unit_gen.time,
                                          clock_after  |-> r.gen.time])
    /\ UNCHANGED <<appVars, vessel, analysis, heap>>

PhantomNext ==
    \/ \E dt \in TimeSteps : VesselPhantom_update(dt)
    \/ GenerateRf

PhantomSpec == PhantomInit /\ [][PhantomNext]_vars

(***************************************************************************)
(* SpectrogramGenerator and velocity_estimation exercised on their own.    *)
(*                                                                         *)
(* A cosine is counted in 1e-4.  A velocity is an exact fraction           *)
(* <<num, den>> of 10 m/s with den >= 0; den = 0 stands for a divisor      *)
(* below the resolution of the cosine (np.cos(np.radians(90)) is 6e-17):   *)
(* a finite value beyond every bound, with the sign of num.  An RF sample  *)
(* is a real amplitude, an overlap a percentage.                           *)
(***************************************************************************)
PRF             == 10000
SPEED_OF_SOUND  == 1540
TRANSDUCER_FREQ == 5000000
GuardDirect     == 10      \* 1e-3
GuardDemod      == 1       \* 1e-4
MaxSignal       == 6       \* samples of the RF signal analysed

WindowSizes == {1, 2, 3, 4}
Overlaps    == {0, 50, 75}
Amplitudes  == {0, 1}
UnitAngles  == {30, 60, 90, 200}
TrueVelocities == {<<0, 1>>, <<1, 20>>}

\* fs * c / (2 * f0) in mm/s.
DopplerScale == (PRF * SPEED_OF_SOUND) \div ((2 * TRANSDUCER_FREQ) \div 1000)

CosE4(rad) == Cos(rad) * 10
Sign(v) == IF v > 0 THEN 1 ELSE IF v < 0 THEN 0 - 1 ELSE 0

SumSeq(seq) ==
    LET RECURSIVE S(_)
        S(n) == IF n = 0 THEN 0 ELSE seq[n] + S(n - 1)
    IN  S(Len(seq))

\* np.fft.fftshift(np.fft.fftfreq(n, 1/fs)) in multiples of fs/n.
Bins_one_sided(n) == [i \in 1 .. n |-> i - 1]
Bins(n) == [i \in 1 .. n |-> i - 1 - (n \div 2)]

\* bin * (fs/n) * c / (2 * f0 * cos_theta).
Velocity(bin, n, cos_theta) ==
    IF n * cos_theta < 0
    THEN <<0 - bin * DopplerScale, 0 - n * cos_theta>>
    ELSE <<bin * DopplerScale, n * cos_theta>>

\* np.hamming(n) in hundredths.
Hamming(n) ==
    CASE n = 1 -> <<100>>
      [] n = 2 -> <<8, 8>>
      [] n = 3 -> <<8, 100, 8>>
      [] n = 4 -> <<8, 77, 77, 8>>

\* 2 * cos(2 * pi * j / n).
TwoCos(n, j) ==
    CASE n = 1 -> 2
      [] n = 2 -> <<2, 0 - 2>>[j + 1]
      [] n = 3 -> <<2, 0 - 1, 0 - 1>>[j + 1]
      [] n = 4 -> <<2, 0, 0 - 2, 0>>[j + 1]

\* 2 * np.abs(np.fft.fft(y)[bin]) ** 2 for a real segment y.
Power(y, bin) ==
    LET n == Len(y)
    IN  SumSeq([t \in 1 .. n * n |->
                  LET a == ((t - 1) \div n) + 1
                      b == ((t - 1) % n) + 1
                  IN  y[a] * y[b] * TwoCos(n, (bin * (a - b)) % n)])

\* stft_processing.py lines 44-46.
cos_theta_guarded(c) ==
    IF Abs(c) < GuardDirect
    THEN (IF c # 0 THEN GuardDirect * Sign(c) ELSE GuardDirect)
    ELSE c

\* processing.py line 39.
cos_theta_demod(c) == IF Abs(c) > GuardDemod THEN c ELSE GuardDemod

NoSpectrum(raised) ==
    [raised |-> raised, spec_time |-> <<>>, velocities |-> <<>>, spec_power |-> <<>>,
     computed |-> 0]

\* hop_size = int(window_size * (1 - overlap)).
hop_size(window_size, overlap) == (window_size * (100 - overlap)) \div 100

\* Variant: one more segment than fits.
n_segments_one_more(len, window_size, hop) == ((len - window_size) \div hop) + 2

\* n_segments = (len(rf_signal) - window_size) // hop_size + 1.
n_segments(len, window_size, hop) == ((len - window_size) \div hop) + 1

\* The body both SpectrogramGenerator classes share, given the cosine that
\* divides.  A hop size of 0 makes // raise ZeroDivisionError; a negative
\* n_segments makes np.zeros raise ValueError.  The loop leaves the columns
\* from its break on at zero; computed counts the columns it filled.
stft(cos_theta, rf_signal, time_axis, window_size, overlap) ==
    LET hop == hop_size(window_size, overlap)
    IN  IF hop = 0 THEN NoSpectrum("ZeroDivisionError")
        ELSE
        LET n == n_segments(Len(rf_signal), window_size, hop)
            bins == Bins(window_size)
            window == Hamming(window_size)
            start_idx(i) == (i - 1) * hop
            broke(i) == start_idx(i) + window_size > Len(rf_signal)
            segment(i) == [k \in 1 .. window_size |->
                              rf_signal[start_idx(i) + k] * window[k]]
        IN  IF n < 0 THEN NoSpectrum("ValueError")
            ELSE [raised     |-> "none",
                  spec_time  |-> [i \in 1 .. n |->
                                    IF broke(i) THEN 0
                                    ELSE time_axis[start_idx(i) + (window_size \div 2) + 1]],
                  velocities |-> [b \in 1 .. window_size |->
                                    Velocity(bins[b], window_size, cos_theta)],
                  spec_power |-> [i \in 1 .. n |->
                                    [b \in 1 .. window_size |->
                                        IF broke(i) THEN 0
                                        ELSE Power(segment(i), bins[b])]],
                  computed   |-> Cardinality({i \in 1 .. n : ~broke(i)})]

\* stft_processing.SpectrogramGenerator.compute_spectrogram.
compute_spectrogram(gen, rf_signal, time_axis, window_size, overlap) ==
    stft(cos_theta_guarded(CosE4(gen.doppler_angle)),
         rf_signal, time_axis, window_size, overlap)

\* rf_generation.SpectrogramGenerator.compute_spectrogram: np.cos divides as
\* it is.
rf_generation_compute_spectrogram(gen, rf_signal, time_axis, window_size, overlap) ==
    stft(CosE4(gen.doppler_angle), rf_signal, time_axis, window_size, overlap)

\* SignalProcessor.process_frame, step 5, for an nfft-point two-sided axis.
process_frame_v_axis(angle_deg, nfft) ==
    [b \in 1 .. nfft |->
        Velocity(Bins(nfft)[b], nfft, cos_theta_demod(CosE4(Radians(angle_deg))))]

\* The names src/utils/config.py assigns.
config ==
    {"VESSEL_RADIUS", "VESSEL_LENGTH", "V_MAX_TRUE", "NUM_SCATTERERS", "FPS",
     "TRANSDUCER_FREQ", "SPEED_OF_SOUND", "SAMPLING_FREQ", "PRF", "GATE_DEPTH",
     "GATE_LENGTH", "GATE_WIDTH", "DEFAULT_ANGLE", "MIN_ANGLE", "MAX_ANGLE",
     "RF_WINDOW_DURATION", "STFT_WINDOW_SIZE", "STFT_OVERLAP"}

\* The names process_frame reads from config, in the order it reads them.
process_frame_reads == <<"FS", "F0", "C", "GATE_DEPTH", "GATE_LEN_MM", "PRF">>

\* Time-averaged spectral magnitudes np.mean(np.abs(Zxx), axis=1) can hold.
Magnitudes == {0, 1, 20}

\* process_frame, step 6.  avg_spec /= np.max(avg_spec) is 0/0 = nan in
\* every bin when the maximum is 0, and nan > threshold is false.
process_frame_v_est(avg_spec, v_axis) ==
    LET levels == {avg_spec[b] : b \in 1 .. Len(avg_spec)}
        peak == CHOOSE m \in levels : \A a \in levels : a <= m
        valid == {b \in 1 .. Len(avg_spec) : peak > 0 /\ 10 * avg_spec[b] > peak}
    IN  IF valid = {} THEN <<0, 1>>
        ELSE LET top == CHOOSE b \in valid :
                           \A c \in valid : Abs(v_axis[c][1]) <= Abs(v_axis[b][1])
             IN  <<Abs(v_axis[top][1]), v_axis[top][2]>>

\* SignalProcessor.process_frame(rf_frame, angle_deg), with the averaged
\* magnitudes its filters and STFT produce given.  Reading a name config does
\* not assign raises AttributeError.
process_frame(avg_spec, angle_deg, nfft) ==
    IF \E i \in 1 .. Len(process_frame_reads) : process_frame_reads[i] \notin config
    THEN [raised |-> "AttributeError", v_axis |-> <<>>, v_est |-> <<0, 1>>,
          avg_spec |-> <<>>]
    ELSE [raised |-> "none",
          v_axis |-> process_frame_v_axis(angle_deg, nfft),
          v_est  |-> process_frame_v_est(avg_spec, process_frame_v_axis(angle_deg, nfft)),
          avg_spec |-> avg_spec]

\* estimate_max_velocity.  np.mean over the columns is nan for every bin
\* when there is no column, and np.argmax is then 0; otherwise the first
\* maximum of the column sums is the first maximum of the means.
estimate_max_velocity(velocities, spec_power) ==
    LET positive == SelectSeq([b \in 1 .. Len(velocities) |-> b],
                              LAMBDA b : velocities[b][1] > 0)
        total(b) == SumSeq([i \in 1 .. Len(spec_power) |-> spec_power[i][b]])
        peak_idx == IF spec_power = <<>> THEN 1
                    ELSE CHOOSE p \in 1 .. Len(positive) :
                           /\ \A q \in 1 .. Len(positive) :
                                 total(positive[q]) <= total(positive[p])
                           /\ \A q \in 1 .. p - 1 :
                                 total(positive[q]) < total(positive[p])
    IN  IF positive = <<>> THEN <<0, 1>>
        ELSE velocities[positive[peak_idx]]

\* ---- velocity_estimation (src/src/core/velocity_estimation.py) ----
calculate_measured_vmax(v_true) == v_true

\* Variant: the target is the velocity projected on the beam.
calculate_relative_error_projected(v_true, v_measured, angle_deg) ==
    LET c == IF angle_deg = <<>> THEN 10000 ELSE CosE4(Radians(angle_deg[1]))
        v_theoretical == <<v_true[1] * Abs(c), v_true[2] * 10000>>
        diff == Abs(v_measured[1] * v_theoretical[2] - v_theoretical[1] * v_measured[2])
    IN  IF v_theoretical[1] = 0 THEN <<0, 1>>
        ELSE <<diff * 100, v_measured[2] * v_theoretical[1]>>

\* calculate_relative_error(v_true, v_measured, angle_deg); angle_deg is <<>>
\* for None.  The result is a fraction of one percent unit.
calculate_relative_error(v_true, v_measured, angle_deg) ==
    LET v_theoretical == calculate_measured_vmax(v_true)
        diff == Abs(v_measured[1] * v_theoretical[2] - v_theoretical[1] * v_measured[2])
    IN  IF v_theoretical[1] = 0 THEN <<0, 1>>
        ELSE IF v_theoretical[1] < 0
             THEN <<0 - diff * 100, 0 - v_measured[2] * v_theoretical[1]>>
             ELSE <<diff * 100, v_measured[2] * v_theoretical[1]>>

Signals == UNION {[1 .. n -> Amplitudes] : n \in 0 .. MaxSignal}

SpectrumInit ==
    /\ IdleApp
    /\ vessel = NoVessel
    /\ unit_gen = NoGen
    /\ unit_rf = <<>>
    /\ heap = NoHeap
    /\ \E rf \in Signals, w \in WindowSizes, o \in Overlaps, a \in UnitAngles :
         analysis = [stage       |-> "input",
                     path        |-> "none",
                     gen         |-> SpectrogramGenerator_init(a),
                     angle_deg   |-> a,
                     rf_signal   |-> rf,
                     time_axis   |-> [i \in 1 .. Len(rf) |-> i - 1],
                     window_size |-> w,
                     overlap     |-> o,
                     result      |-> NoSpectrum("none"),
                     avg_spec    |-> <<>>,
                     v_true      |-> <<0, 1>>,
                     v_measured  |-> <<0, 1>>,
                     error       |-> <<0, 1>>]

Analysed(path, r) ==
    [analysis EXCEPT !.stage = IF r.raised = "none" THEN "spectrum" ELSE "raised",
                     !.path = path, !.result = r]

ComputeSpectrogram ==
    /\ analysis.stage = "input"
    /\ analysis' = Analysed("stft_processing",
                     compute_spectrogram(analysis.gen, analysis.rf_signal,
                         analysis.time_axis, analysis.window_size, analysis.overlap))
    /\ UNCHANGED <<appVars, phantomVars, heap>>

RfGenerationComputeSpectrogram ==
    /\ analysis.stage = "input"
    /\ analysis' = Analysed("rf_generation",
                     rf_generation_compute_spectrogram(analysis.gen, analysis.rf_signal,
                         analysis.time_axis, analysis.window_size, analysis.overlap))
    /\ UNCHANGED <<appVars, phantomVars, heap>>

ProcessFrameConversion ==
    /\ analysis.stage = "input"
    /\ analysis' = [analysis EXCEPT
                      !.stage = "v_axis", !.path = "processing",
                      !.result.velocities =
                          process_frame_v_axis(analysis.angle_deg, analysis.window_size)]
    /\ UNCHANGED <<appVars, phantomVars, heap>>

ProcessFrame ==
    /\ analysis.stage = "input"
    /\ \E avg_spec \in [1 .. analysis.window_size -> Magnitudes] :
         LET r == process_frame(avg_spec, analysis.angle_deg, analysis.window_size)
         IN  analysis' = [analysis EXCEPT
                            !.stage = IF r.raised = "none" THEN "frame" ELSE "raised",
                            !.path = "processing",
                            !.result.raised = r.raised,
                            !.result.velocities = r.v_axis,
                            !.avg_spec = r.avg_spec,
                            !.v_measured = r.v_est]
    /\ UNCHANGED <<appVars, phantomVars, heap>>

\* controller.py lines 129-132.
EstimateMaxVelocity ==
    /\ analysis.stage = "spectrum"
    /\ analysis.path = "stft_processing"
    /\ analysis' = [analysis EXCEPT
                      !.stage = "estimated",
                      !.v_measured = estimate_max_velocity(analysis.result.velocities,
                                                           analysis.result.spec_power)]
    /\ UNCHANGED <<appVars, phantomVars, heap>>

\* controller.py lines 132-143.
RelativeError ==
    /\ analysis.stage = "estimated"
    /\ \E v_true \in TrueVelocities :
         analysis' = [analysis EXCEPT
                        !.stage = "metrics",
                        !.v_true = v_true,
                        !.error = calculate_relative_error(v_true, analysis.v_measured,
                                                           <<analysis.angle_deg>>)]
    /\ UNCHANGED <<appVars, phantomVars, heap>>

SpectrumNext ==
    \/ ComputeSpectrogram
    \/ RfGenerationComputeSpectrogram
    \/ ProcessFrameConversion
    \/ ProcessFrame
    \/ EstimateMaxVelocity
    \/ RelativeError

SpectrumSpec == SpectrumInit /\ [][SpectrumNext]_vars

(***************************************************************************)
(* The array objects of SimulationWorker.run.  An array is known by its    *)
(* identity, a number; every numpy call that builds an array returns the   *)
(* next unused one.  heap.emitted holds the arrays handed to the signals.  *)
(***************************************************************************)
MaxHeapSteps == 6     \* stages of run() followed in the object specification

\* Variant: the array itself is handed over.
np_copy_same(array, fresh) == array

\* ndarray.copy(): a new array.
np_copy(array, fresh) == fresh

HeapInit ==
    /\ IdleApp
    /\ vessel = NoVessel
    /\ unit_gen = NoGen
    /\ unit_rf = <<>>
    /\ analysis = NoAnalysis
    /\ heap = [stage |-> "run", next |-> 4,
               x |-> 1, y |-> 2, z_rel |-> 3,
               rf_buffer |-> <<>>, rf_time_buffer |-> <<>>,
               spectrum |-> {}, emitted |-> {}, kinds |-> {}, steps |-> 0]

\* phantom.update(dt): self.x is changed in place.
HeapUpdate ==
    /\ heap.stage = "run"
    /\ heap.steps < MaxHeapSteps
    /\ heap' = [heap EXCEPT !.steps = @ + 1]
    /\ UNCHANGED <<appVars, phantomVars, analysis>>

\* flow_updated.emit(phantom.x.copy(), phantom.y.copy(), phantom.z_rel.copy()).
HeapFlow ==
    /\ heap.stage = "run"
    /\ heap.steps < MaxHeapSteps
    /\ heap' = [heap EXCEPT
                  !.emitted = @ \cup {np_copy(heap.x, heap.next),
                                      np_copy(heap.y, heap.next + 1),
                                      np_copy(heap.z_rel, heap.next + 2)},
                  !.kinds = @ \cup {"flow"},
                  !.next = @ + 3,
                  !.steps = @ + 1]
    /\ UNCHANGED <<appVars, phantomVars, analysis>>

\* generate_rf_sample builds rf_signal and time_axis; copies are emitted and
\* the arrays themselves are appended to the buffers.
HeapRf ==
    /\ heap.stage = "run"
    /\ heap.steps < MaxHeapSteps
    /\ LET rf_signal == heap.next
           time_axis == heap.next + 1
       IN  heap' = [heap EXCEPT
                      !.emitted = @ \cup {np_copy(rf_signal, heap.next + 2),
                                          np_copy(time_axis, heap.next + 3)},
                      !.kinds = @ \cup {"rf"},
                      !.rf_buffer = LimitBuffer(Append(@, rf_signal)),
                      !.rf_time_buffer = LimitBuffer(Append(@, time_axis)),
                      !.next = @ + 4,
                      !.steps = @ + 1]
    /\ UNCHANGED <<appVars, phantomVars, analysis>>

\* np.concatenate builds rf_combined and time_combined, compute_spectrogram
\* builds spec_time, velocities and spec_power; copies of the three are
\* emitted and estimate_max_velocity goes on with the originals.
HeapSpectrum ==
    /\ heap.stage = "run"
    /\ heap.steps < MaxHeapSteps
    /\ Len(heap.rf_buffer) >= min_spec_windows
    /\ LET spec_time  == heap.next + 2
           velocities == heap.next + 3
           spec_power == heap.next + 4
       IN  heap' = [heap EXCEPT
                      !.spectrum = {spec_time, velocities, spec_power},
                      !.emitted = @ \cup {np_copy(spec_time, heap.next + 5),
                                          np_copy(velocities, heap.next + 6),
                                          np_copy(spec_power, heap.next + 7)},
                      !.kinds = @ \cup {"spectrum"},
                      !.next = @ + 8,
                      !.steps = @ + 1]
    /\ UNCHANGED <<appVars, phantomVars, analysis>>

HeapNext == HeapUpdate \/ HeapFlow \/ HeapRf \/ HeapSpectrum

HeapSpec == HeapInit /\ [][HeapNext]_vars

(***************************************************************************)
(* Claims.                                                                 *)
(***************************************************************************)
Range(seq) == {seq[i] : i \in 1 .. Len(seq)}

\* C1: once update_angle_live(a) was called with an accepted angle a on a
\* running session, every RF synthesis and every spectral analysis of a tick
\* started after the call uses angle a, and the worker's phantom is still the
\* one created at the start of the session.
C1_LiveAngleUsedFromNextTick ==
    (pc # "none" /\ live.angle # 0 /\ ~live.fresh) =>
        /\ tick_rf_angle # <<>> => tick_rf_angle[1] = Radians(live.angle)
        /\ tick_spec_angle # <<>> => tick_spec_angle[1] = Radians(live.angle)
        /\ phantom.gen <= 1

\* C2: a live update or a start request whose angle set_angle rejects leaves
\* get_current_angle() as it was before the call.
C2_RejectedKeepsControllerAngle ==
    last_call.raised = "ValueError" => get_current_angle = last_call.angle_before

\* C3: AngleManager.set_angle succeeds for every angle within
\* [MIN_ANGLE, MAX_ANGLE] and get_angle then returns that angle; it fails only
\* for angles outside the bounds.
C3_BoundsDecideAcceptance ==
    (last_call.op \in {"start", "live"} /\ last_call.arg # <<>>) =>
        LET a == last_call.arg[1]
        IN  /\ (MIN_ANGLE <= a /\ a <= MAX_ANGLE) =>
                  (last_call.raised # "ValueError" /\ get_angle(angle_manager) = a)
            /\ last_call.raised = "ValueError" => ~(MIN_ANGLE <= a /\ a <= MAX_ANGLE)

\* C4: a rejected AngleManager.set_angle raises and leaves the stored angle
\* unchanged: get_angle, get_angle_radians and get_angle_info return what they
\* returned before the call; an accepted call never raises ValueError.  The
\* worker's own AngleManager, when its set_angle raised during initialisation,
\* still holds its constructor's angle.
C4_RejectedSetAngleKeepsState ==
    /\ last_call.raised = "ValueError" =>
          /\ last_call.arg[1] \notin AVAILABLE_ANGLES
          /\ get_angle(angle_manager) = last_call.am_before
          /\ get_angle_radians(angle_manager) = get_angle_radians(last_call.am_before)
          /\ get_angle_info(angle_manager) = get_angle_info(last_call.am_before)
    /\ angle_manager \in AVAILABLE_ANGLES
    /\ (pc = "except" /\ ticks = 0) => angle_mgr.current_angle = AngleManager_init

\* C4 witness: a rejected call that followed an accepted one.
C4_Witness ==
    /\ last_call.raised = "ValueError"
    /\ last_call.am_before = 30
    /\ angle_manager = 30

\* The sample tags of the k-th synthesized window, and the time axis of a
\* window that starts at instant t0.
WindowOf(k)   == [i \in 1 .. NSamples |-> k]
WindowTags(w) == [i \in 1 .. Len(w) |-> w[i].win]

\* C5: the RF FIFO never holds more than 5 windows, and what it holds are the
\* most recently synthesized windows in synthesis order (the oldest is the one
\* dropped on overflow); the time-axis FIFO keeps step with it.
C5_FifoBoundedMostRecent ==
    /\ Len(rf_buffer) <= 5
    /\ Len(rf_buffer) = (IF rf_count < 5 THEN rf_count ELSE 5)
    /\ Len(rf_time_buffer) = Len(rf_buffer)
    /\ \A i \in 1 .. Len(rf_buffer) :
          WindowTags(rf_buffer[i]) = WindowOf(rf_count - Len(rf_buffer) + i)

\* C5 witness: the spectral stage is about to read a FIFO from which the
\* oldest window has been dropped.
C5_Witness ==
    /\ pc = "spec"
    /\ rf_count = 6
    /\ Len(rf_buffer) = 5
    /\ rf_buffer[1][1].win = 2

Has(e) == e \in Range(ev)

\* C6: at the end of tick n a spectrogram has been emitted iff n is a multiple
\* of 10 and the FIFO holds at least 3 windows; its input is the concatenation
\* of all buffered windows (and of their time axes) in FIFO order; metrics are
\* emitted iff the spectrogram is; none is emitted before 3 windows exist.
C6_SpectrogramGate ==
    pc = "inc" =>
        /\ Has("spectrum") <=> (frame_count % 10 = 0 /\ Len(rf_buffer) >= 3)
        /\ Has("metrics") <=> Has("spectrum")
        /\ Has("spectrum") =>
              /\ rf_count >= 3
              /\ Len(spec_in.rf) = NSamples * Len(rf_buffer)
              /\ Len(spec_in.time) = NSamples * Len(rf_time_buffer)
              /\ \A k \in 1 .. Len(spec_in.rf) :
                    /\ spec_in.rf[k] =
                          rf_buffer[((k - 1) \div NSamples) + 1][((k - 1) % NSamples) + 1]
                    /\ spec_in.time[k] =
                          rf_time_buffer[((k - 1) \div NSamples) + 1][((k - 1) % NSamples) + 1]

\* C6 witness: the first spectrogram, at the end of tick 10 with 3 windows.
C6_Witness ==
    /\ pc = "inc"
    /\ frame_count = 10
    /\ Len(rf_buffer) = 3
    /\ Has("spectrum")
    /\ Has("metrics")

Count(e) == Cardinality({i \in 1 .. Len(ev) : ev[i] = e})

\* C7: every tick advances the field exactly once; a flow update is emitted
\* exactly on the ticks whose frame_count is a multiple of 2; an RF window is
\* synthesized and emitted exactly on the multiples of 5; frame_count grows
\* by exactly 1 per tick.
C7_TickCadence ==
    /\ pc = "inc" =>
          /\ Count("advance") = 1
          /\ Has("flow") <=> frame_count % 2 = 0
          /\ Has("rf") <=> frame_count % 5 = 0
          /\ rf_count = (frame_count \div 5) + 1
          /\ phantom.updates = frame_count + 1
          /\ ticks = frame_count + 1
    /\ pc = "loop" =>
          /\ ticks = frame_count
          /\ phantom.updates = frame_count

\* C7 witness: the end of a tick that synthesized RF but emitted no flow update.
C7_Witness ==
    /\ pc = "inc"
    /\ frame_count = 5
    /\ ev = <<"advance", "rf">>

Rank(e) ==
    CASE e = "advance"  -> 1
      [] e = "flow"     -> 2
      [] e = "rf"       -> 3
      [] e = "spectrum" -> 4
      [] e = "metrics"  -> 5

\* C8: within a tick the field advance comes first and the emissions follow in
\* the order flow, RF, spectrogram, metrics, each at most once; a spectrogram
\* is computed from a FIFO that already holds the window synthesized in the
\* same tick.
C8_StageOrder ==
    /\ \A i \in 1 .. Len(ev) : \A j \in 1 .. Len(ev) :
          i < j => Rank(ev[i]) < Rank(ev[j])
    /\ ev # <<>> => ev[1] = "advance"
    /\ (Has("spectrum") /\ Has("rf")) =>
          /\ spec_in.rf # <<>>
          /\ spec_in.rf[Len(spec_in.rf)].win = rf_count
          /\ spec_in.rf[Len(spec_in.rf)].idx = NSamples

\* C8 witness: a tick in which every stage ran.
C8_Witness ==
    /\ pc = "inc"
    /\ ev = <<"advance", "flow", "rf", "spectrum", "metrics">>
    /\ rf_count = 5

\* What a completed tick n has done, in order, given the FIFO at its end.
ExpectedEvents(n, buf) ==
    <<"advance">>
    \o (IF n % 2 = 0 THEN <<"flow">> ELSE <<>>)
    \o (IF n % 5 = 0 THEN <<"rf">> ELSE <<>>)
    \o (IF n % 10 = 0 /\ Len(buf) >= 3 THEN <<"spectrum", "metrics">> ELSE <<>>)

C9_TickRunsToCompletion ==
    (pc = "inc" /\ ~is_running) => ev = ExpectedEvents(frame_count, rf_buffer)

C9_NoTickAfterStop ==
    (pc = "loop" /\ ~is_running) => (pc' # "advance" /\ ticks' <= ticks)

C9_StopReturns ==
    (ctl = "waiting") ~> (ctl = "idle" /\ worker = 0)

\* C9: the stop flag takes effect only at the loop test: a tick in progress
\* when stop() is called completes with all its emissions, no tick starts once
\* the flag is cleared, and stop_simulation (stop, wait, cleanup) eventually
\* returns with worker = None.
C9_GracefulStop ==
    /\ []C9_TickRunsToCompletion
    /\ [][C9_NoTickAfterStop]_vars
    /\ C9_StopReturns

\* C9 witness: stop_simulation is waiting while the tick that was in progress
\* has run all its stages, emissions included.
C9_Witness ==
    /\ ctl = "waiting"
    /\ ~is_running
    /\ pc = "inc"
    /\ ev = <<"advance", "flow", "rf", "spectrum", "metrics">>

\* C10: a worker emits at most one error signal; once it has, its loop has
\* stopped and it emits nothing more; the controller forwards every error
\* signal exactly once and has no worker reference after handling one.
C10_SingleErrorEndsSession ==
    /\ \A s \in Sessions :
          /\ errs[s] <= 1
          /\ forwarded[s] + Cardinality({i \in 1 .. Len(errq) : errq[i] = s}) = errs[s]
    /\ (pc # "none" /\ errs[session] = 1) => pc \in {"returning", "finished"}
    /\ pc = "except" => errs[session] = 0
    /\ last_call.op = "error" => worker = 0

\* C10 witness: the error of a worker that failed inside a tick has been
\* forwarded and the reference cleared.
C10_Witness ==
    /\ errs[1] = 1
    /\ forwarded[1] = 1
    /\ errq = <<>>
    /\ last_call.op = "error"
    /\ worker = 0


\* C11: a VesselPhantom asked for with radius <= 0, length <= 0 or
\* num_scatterers <= 0 is never constructed: the constructor raises, and no
\* RF window is ever generated from such a phantom.
C11_InvalidParametersRejected ==
    (vessel.args.radius <= 0 \/ vessel.args.length <= 0
        \/ vessel.args.num_scatterers <= 0)
    => (vessel.raised /\ ~vessel.made /\ unit_rf = <<>>)

\* C12: after any number of update(dt) calls on a phantom with positive
\* radius, length and scatterer count, every x lies in
\* [-length/2, length/2].
C12_XStaysInVessel ==
    (vessel.made /\ vessel.radius > 0 /\ vessel.length > 0
        /\ Len(vessel.x) > 0 /\ vessel.updates > 0)
    => \A i \in 1 .. Len(vessel.x) :
          0 - vessel.length <= 2 * vessel.x[i] /\ 2 * vessel.x[i] <= vessel.length

\* C15: every generate_rf_sample call, with an empty gate or not, advances
\* the generator's clock by the window duration, so the time axes of the
\* windows, concatenated in generation order, are strictly increasing.
C15_ClockAdvancesEveryCall ==
    /\ \A i \in 1 .. Len(unit_rf) :
          unit_rf[i].clock_after = unit_rf[i].clock_before + NSamples
    /\ LET t == Concatenate([i \in 1 .. Len(unit_rf) |-> unit_rf[i].time_axis])
       IN  \A i \in 1 .. Len(t) - 1 : t[i] < t[i + 1]

\* C16: a generate_rf_sample call that finds no scatterer in the gate returns
\* a buffer of exactly int(duration * fs) samples, all zero, and a time axis
\* of the same length.
C16_EmptyGateZeroBuffer ==
    \A i \in 1 .. Len(unit_rf) :
        ~unit_rf[i].populated =>
            /\ Len(unit_rf[i].rf_signal) = NSamples
            /\ \A j \in 1 .. Len(unit_rf[i].rf_signal) : unit_rf[i].rf_signal[j].zero
            /\ Len(unit_rf[i].time_axis) = Len(unit_rf[i].rf_signal)

\* An empty-gate window generated after a populated one.
C16_Witness ==
    \E i \in 1 .. Len(unit_rf) - 1 :
        unit_rf[i].populated /\ ~unit_rf[i + 1].populated

ZeroSignal == \A i \in 1 .. Len(analysis.rf_signal) : analysis.rf_signal[i] = 0

\* C13: when every sample of the analysed RF buffer is zero,
\* compute_spectrogram followed by estimate_max_velocity yields
\* v_measured = 0.
C13_ZeroSignalZeroVelocity ==
    (analysis.stage \in {"estimated", "metrics"} /\ ZeroSignal
        /\ Len(analysis.result.spec_power) >= 1)
    => analysis.v_measured[1] = 0

\* C14: compute_spectrogram on an RF signal shorter than window_size (the
\* empty signal included) does not raise and returns zero columns and an
\* empty time axis.  Only calls whose hop size is at least 1 are looked at.
C14_ShortBufferZeroColumns ==
    (analysis.stage \in {"spectrum", "raised"} /\ analysis.path = "stft_processing"
        /\ (analysis.window_size * (100 - analysis.overlap)) \div 100 >= 1
        /\ Len(analysis.rf_signal) < analysis.window_size)
    => /\ analysis.result.raised = "none"
       /\ analysis.result.spec_power = <<>>
       /\ analysis.result.spec_time = <<>>

\* The epsilon of the path that produced the axis: 1e-3 for a
\* SpectrogramGenerator, 1e-4 for process_frame.
Epsilon == IF analysis.path = "processing" THEN GuardDemod ELSE GuardDirect

\* C17: wherever a frequency axis was converted to a velocity axis, the
\* cosine that divided has magnitude at least the epsilon of that path, every
\* velocity is bounded in magnitude by (fs/2) * c / (2 * f0 * epsilon), and
\* the generator's stored angle is the one it was constructed with.
C17_CosineDivisorGuarded ==
    analysis.stage \in {"spectrum", "v_axis", "estimated", "metrics"} =>
        /\ \A b \in 1 .. Len(analysis.result.velocities) :
              LET v == analysis.result.velocities[b]
              IN  /\ v[2] >= analysis.window_size * Epsilon
                  /\ 2 * Epsilon * Abs(v[1]) <= DopplerScale * v[2]
        /\ analysis.gen = SpectrogramGenerator_init(analysis.angle_deg)

ErrorAngles == {<<>>} \cup {<<a>> : a \in UnitAngles}

\* C18: the relative error is |v_measured - v_true| / v_true * 100 whatever
\* angle_deg is passed (None included), and 0 when v_true = 0.
C18_RelativeErrorIgnoresAngle ==
    analysis.stage = "metrics" =>
        /\ \A a \in ErrorAngles :
              calculate_relative_error(analysis.v_true, analysis.v_measured, a)
                  = analysis.error
        /\ analysis.v_true[1] = 0 => analysis.error[1] = 0
        /\ analysis.v_true[1] > 0 =>
              /\ analysis.error[1] =
                    100 * Abs(analysis.v_measured[1] * analysis.v_true[2]
                              - analysis.v_true[1] * analysis.v_measured[2])
              /\ analysis.error[2] = analysis.v_measured[2] * analysis.v_true[1]

\* A non-zero error computed at an angle whose cosine is not 1.
C18_Witness ==
    /\ analysis.stage = "metrics"
    /\ analysis.v_true[1] > 0
    /\ analysis.error[1] > 0
    /\ analysis.angle_deg = 60

Mirrored(b) ==
    \E m \in 1 .. Len(analysis.result.velocities) :
        analysis.result.velocities[m] =
            <<0 - analysis.result.velocities[b][1], analysis.result.velocities[b][2]>>

DirectAxis ==
    /\ analysis.stage \in {"spectrum", "estimated", "metrics"}
    /\ analysis.path = "stft_processing"

\* C19 as stated: whenever v is on the velocity axis of compute_spectrogram,
\* -v is on it too, for every window_size and angle.
C19_AxisSymmetric ==
    DirectAxis => \A b \in 1 .. Len(analysis.result.velocities) : Mirrored(b)

\* C19 amended: for an odd window_size every axis value v has -v on the axis;
\* for an even window_size the first value, the one of frequency -fs/2, has
\* no mirror and every other value has.
C19_AxisSymmetricBelowNyquist ==
    DirectAxis =>
        /\ \A b \in 1 .. Len(analysis.result.velocities) :
              (analysis.window_size % 2 = 1 \/ b # 1) => Mirrored(b)
        /\ analysis.window_size % 2 = 0 => ~Mirrored(1)

\* An axis of even length with a mirrored pair, at a negative cosine.
C19_Witness ==
    /\ DirectAxis
    /\ analysis.window_size = 4
    /\ analysis.angle_deg = 200

\* The arrays the worker goes on using.
Kept ==
    {heap.x, heap.y, heap.z_rel} \cup Range(heap.rf_buffer)
        \cup Range(heap.rf_time_buffer) \cup heap.spectrum

\* C20: no array handed to the flow, RF or spectrogram signal is the same
\* object as an array the worker keeps using (phantom.x, phantom.y,
\* phantom.z_rel, the entries of rf_buffer and rf_time_buffer, the
\* spectrogram arrays estimate_max_velocity reads).
C20_EmittedArraysAreCopies ==
    heap.stage = "run" => heap.emitted \cap Kept = {}

\* All three signals have emitted and the buffers hold windows.
C20_Witness ==
    /\ heap.stage = "run"
    /\ heap.kinds = {"flow", "rf", "spectrum"}
    /\ Len(heap.rf_buffer) >= min_spec_windows

\* C21: an update(dt) call leaves every scatterer's vx, y and z_rel and the
\* number of scatterers as they were, so after any sequence of calls they
\* equal their values at creation, wrapped scatterers included.
C21_UpdateChangesOnlyX ==
    [][(vessel.made /\ vessel'.made) =>
          /\ vessel'.vx = vessel.vx
          /\ vessel'.vx_nan = vessel.vx_nan
          /\ vessel'.y = vessel.y
          /\ vessel'.z_rel = vessel.z_rel
          /\ Len(vessel'.x) = Len(vessel.x)]_vars

\* Two scatterers, one off the centre line, after an update that wrapped.
C21_Witness ==
    /\ vessel.made
    /\ vessel.wrapped
    /\ Len(vessel.x) = 2
    /\ \E i \in 1 .. 2 : vessel.y[i] # 0

\* The phantom as its constructor returned it, for valid arguments.
ValidCreated ==
    /\ vessel.made
    /\ vessel.updates = 0
    /\ vessel.radius > 0 /\ vessel.length > 0 /\ vessel.v_max >= 0
    /\ Len(vessel.x) > 0

\* C22: every scatterer of a phantom created from valid arguments lies inside
\* the vessel (y^2 + z_rel^2 <= radius^2, -length/2 <= x <= length/2) and has
\* vx = v_max * (1 - (y^2 + z_rel^2) / radius^2), hence 0 <= vx <= v_max.
C22_CreatedInsideVesselWithProfile ==
    ValidCreated =>
        \A i \in 1 .. Len(vessel.x) :
            LET r_sq == vessel.y[i] * vessel.y[i] + vessel.z_rel[i] * vessel.z_rel[i]
            IN  /\ r_sq <= vessel.radius * vessel.radius
                /\ 0 - vessel.length <= 2 * vessel.x[i]
                /\ 2 * vessel.x[i] <= vessel.length
                /\ ~vessel.vx_nan
                /\ vessel.vx[i] * (vessel.radius * vessel.radius)
                      = vessel.v_max * (vessel.radius * vessel.radius - r_sq)
                /\ 0 <= vessel.vx[i] /\ vessel.vx[i] <= vessel.v_max

\* A created phantom with a scatterer on the centre line and one off it.
C22_Witness ==
    /\ ValidCreated
    /\ Len(vessel.x) = 2
    /\ vessel.y[1] = 0 /\ vessel.z_rel[1] = 0
    /\ vessel.y[2] # 0

\* C23: for a buffer of length L >= window_size and a hop size of at least 1,
\* compute_spectrogram returns floor((L - window_size) / hop) + 1 columns,
\* fills every one of them from a complete segment (the break is never
\* taken), and column i (counted from 0) carries time_axis[i * hop +
\* window_size // 2], an index inside the time axis.
C23_ColumnsAndTimestamps ==
    (DirectAxis /\ Len(analysis.rf_signal) >= analysis.window_size) =>
        LET hop == hop_size(analysis.window_size, analysis.overlap)
            L == Len(analysis.rf_signal)
            cols == Len(analysis.result.spec_power)
        IN  /\ hop >= 1
            /\ cols = ((L - analysis.window_size) \div hop) + 1
            /\ cols >= 1
            /\ analysis.result.computed = cols
            /\ Len(analysis.result.spec_time) = cols
            /\ \A i \in 0 .. cols - 1 :
                  /\ i * hop + analysis.window_size <= L
                  /\ i * hop + (analysis.window_size \div 2) + 1 <= Len(analysis.time_axis)
                  /\ analysis.result.spec_time[i + 1] =
                        analysis.time_axis[i * hop + (analysis.window_size \div 2) + 1]

\* Overlapping segments: several columns from a hop smaller than the window.
C23_Witness ==
    /\ DirectAxis
    /\ analysis.window_size = 4
    /\ analysis.overlap = 50
    /\ Len(analysis.rf_signal) = MaxSignal
    /\ Len(analysis.result.spec_power) >= 2

\* C27: every compute_spectrogram call with window_size >= 1 and an overlap
\* fraction in [0, 1) works with a hop size of at least 1: the segment count
\* is computed without a division by zero.
C27_HopAtLeastOne ==
    (analysis.stage \in {"spectrum", "raised"} /\ analysis.path = "stft_processing"
        /\ analysis.window_size >= 1
        /\ 0 <= analysis.overlap /\ analysis.overlap < 100)
    => /\ hop_size(analysis.window_size, analysis.overlap) >= 1
       /\ analysis.result.raised # "ZeroDivisionError"

\* C24: a process_frame call returns, as its velocity estimate, 0 when the
\* maximum of the time-averaged magnitudes is zero or when no bin's
\* normalised value exceeds 0.1, and otherwise the largest absolute velocity
\* among the bins whose normalised value exceeds 0.1.
C24_ThresholdEstimator ==
    (analysis.path = "processing" /\ analysis.stage \in {"frame", "raised"}) =>
        /\ analysis.result.raised = "none"
        /\ LET avg == analysis.avg_spec
               v == analysis.result.velocities
               above == {b \in 1 .. Len(avg) :
                           \E m \in {avg[a] : a \in 1 .. Len(avg)} :
                              /\ \A a \in 1 .. Len(avg) : avg[a] <= m
                              /\ m > 0
                              /\ 10 * avg[b] > m}
           IN  IF above = {}
               THEN analysis.v_measured[1] = 0
               ELSE /\ \E b \in above : analysis.v_measured = <<Abs(v[b][1]), v[b][2]>>
                    /\ \A b \in above : Abs(v[b][1]) <= analysis.v_measured[1]

\* C25: in every tick of a running session the RF synthesizer and the
\* spectral estimator hold the same Doppler angle, and it is the angle most
\* recently accepted for the worker (the one its constructor or its latest
\* set_angle call stored in self.doppler_angle).
C25_GeneratorsShareAcceptedAngle ==
    (pc \in {"advance", "flow", "rf", "spec", "inc"}) =>
        /\ rf_gen.doppler_angle = spec_gen.doppler_angle
        /\ rf_gen.doppler_angle = Radians(doppler_angle)

\* C26: at most one SimulationWorker thread of the controller is running at
\* any time: no worker's reference has been cleared while its thread was
\* still running, so no thread runs beside the one the controller refers to.
C26_AtMostOneWorkerRuns ==
    /\ orphans = 0
    /\ orphans + (IF worker # 0 /\ isRunning THEN 1 ELSE 0) <= 1

====
